---- MODULE Spec2Model ----
(***************************************************************************)
(* single-malt: a content API over one SQLite table `posts`.               *)
(* Model of src/main.go (the version with DELETE and PUT routes).          *)
(*                                                                         *)
(* Strings the code inspects (titles, slugs, path segments) are sequences  *)
(* of one-character strings; strings it only stores (description, content) *)
(* are opaque TLA+ strings.  Timestamps are integers read from `clock`.    *)
(***************************************************************************)
EXTENDS Integers, Sequences, FiniteSets, Bags, TLC

\* ------------------------------------------------------------------ bounds
MaxClock    == 3   \* time.Now() is read at most MaxClock times
MaxInFlight == 2   \* publish requests between time.Now() and db.Exec
MaxTitleLen == 3   \* titles given to the slug normalizer on its own

VARIABLES
    posts,     \* the posts table: a set of rows
    clock,     \* the wall clock read by time.Now()
    env,       \* os.Getenv("MALT_SECRET"): "" when unset or empty
    pending,   \* bag of publish requests that passed line 114, before line 116
    last,      \* the request most recently answered, with its response
    nTitle,    \* slug normalizer on its own: the input title
    nSlug,     \* ... its normalization, a sequence of at most one slug
    nAgain     \* ... the normalization of nSlug, likewise

vars == <<posts, clock, env, pending, last, nTitle, nSlug, nAgain>>

\* ------------------------------------------------------- slug normalization
Alphabet == {"A", "b", "7", " ", "-", "!"}

\* strings.ToLower, one character at a time
ToLowerChar(c) == IF c = "A" THEN "a" ELSE c

ToLower(s) == [i \in 1..Len(s) |-> ToLowerChar(s[i])]

\* the character class a-z0-9 and space of the regexp on line 108
InClass(c) == c \in {"a", "b", "7", " "}

\* reg.ReplaceAllString(s, ""): every run of characters outside the class goes
Strip(s) == SelectSeq(s, InClass)

\* strings.ReplaceAll(s, " ", "-")
Hyphenate(s) == [i \in 1..Len(s) |-> IF s[i] = " " THEN "-" ELSE s[i]]

\* lines 106-111
Normalize(title) == Hyphenate(Strip(ToLower(title)))

\* ------------------------------------------------------------ request inputs
\* The X-MALT-KEY header of a request: absent, or present with a value.
NoHeader == [present |-> FALSE, value |-> ""]

Headers == {NoHeader, [present |-> TRUE, value |-> "k"]}

\* r.Header.Get: the empty string for an absent header
HeaderGet(h) == IF h.present THEN h.value ELSE ""

\* values of MALT_SECRET as os.Getenv reports them ("" when unset)
Secrets == {"", "k"}

\* Request bodies.  ok = FALSE is a body json.Decode rejects.
Malformed == [ok |-> FALSE, slug |-> <<>>, title |-> <<>>,
              description |-> "", content |-> ""]

Titles == << <<"A", " ", "b">>, <<"!">> >>

BodySlugs == {<<>>, <<"x">>}

\* the k-th payload: its three text fields are told apart from the other's
Payload(k, s) == [ok |-> TRUE, slug |-> s, title |-> Titles[k],
                  description |-> IF k = 1 THEN "d1" ELSE "d2",
                  content |-> IF k = 1 THEN "c1" ELSE "c2"]

JsonBodies == {Payload(k, s) : k \in 1..Len(Titles), s \in BodySlugs}

Bodies == {Malformed} \cup JsonBodies

\* the last path segment of /api/posts/<seg>; <<>> is the path /api/posts/
PathSegs == {<<>>, <<"a", "-", "b">>, <<"x">>}

PostsPath   == [kind |-> "posts", seg |-> <<>>]     \* /api/posts
PublishPath == [kind |-> "publish", seg |-> <<>>]   \* /api/publish
OtherPath   == [kind |-> "other", seg |-> <<>>]     \* e.g. /post/my-slug
PostPath(g) == [kind |-> "post", seg |-> g]         \* /api/posts/<g>

\* the requests sent: method and path
Requests ==
    {<<"GET", PostsPath>>, <<"POST", PublishPath>>, <<"GET", OtherPath>>}
    \cup {<<m, PostPath(g)>> : m \in {"GET", "PUT", "DELETE"}, g \in PathSegs}

\* ------------------------------------------------------------------ routing
\* mux.HandleFunc registrations; {slug} matches one non-empty segment, and
\* the pattern "/" takes every request no other pattern takes.
Route(method, path) ==
    IF method = "GET" /\ path.kind = "posts" THEN "handleListPosts"
    ELSE IF method = "GET" /\ path.kind = "post" /\ path.seg # <<>>
        THEN "handleGetPost"
    ELSE IF method = "POST" /\ path.kind = "publish" THEN "handlePublish"
    ELSE IF method = "DELETE" /\ path.kind = "post" /\ path.seg # <<>>
        THEN "handleDeletePost"
    ELSE IF method = "PUT" /\ path.kind = "post" /\ path.seg # <<>>
        THEN "handleUpdatePost"
    ELSE "static"

\* the comparison of lines 92, 136 and 163
Authorized(hdr) == HeaderGet(hdr) = env

\* ------------------------------------------------------------- the database
\* rows of the posts table having a slug
RowsWith(tbl, slug) == {r \in tbl : r.slug = slug}

NewRow(p) == [slug |-> p.Slug, title |-> p.Title,
              description |-> p.Description, content |-> p.Content,
              published_at |-> p.PublishedAt]

\* Upsert as INSERT OR REPLACE: a conflict replaces the whole row
UpsertReplacing(tbl, p) == {r \in tbl : r.slug # p.Slug} \cup {NewRow(p)}

\* Upsert with description missing from the DO UPDATE SET list
UpsertNoDescription(tbl, p) ==
    IF RowsWith(tbl, p.Slug) = {}
    THEN tbl \cup {NewRow(p)}
    ELSE {IF r.slug = p.Slug
          THEN [r EXCEPT !.title = p.Title, !.content = p.Content]
          ELSE r : r \in tbl}

\* INSERT ... ON CONFLICT(slug) DO UPDATE SET title, content, description
Upsert(tbl, p) ==
    IF RowsWith(tbl, p.Slug) = {}
    THEN tbl \cup {NewRow(p)}
    ELSE {IF r.slug = p.Slug
          THEN [r EXCEPT !.title = p.Title, !.content = p.Content,
                         !.description = p.Description]
          ELSE r : r \in tbl}

\* UpdateRows that inserts the row when no row has the slug
UpdateOrInsert(tbl, slug, p) ==
    IF RowsWith(tbl, slug) = {}
    THEN tbl \cup {NewRow([p EXCEPT !.Slug = slug])}
    ELSE {IF r.slug = slug
          THEN [r EXCEPT !.title = p.Title, !.description = p.Description,
                         !.content = p.Content]
          ELSE r : r \in tbl}

\* UPDATE posts SET title, description, content WHERE slug = ?
UpdateRows(tbl, slug, p) ==
    {IF r.slug = slug
     THEN [r EXCEPT !.title = p.Title, !.description = p.Description,
                    !.content = p.Content]
     ELSE r : r \in tbl}

\* DeleteRows whose WHERE clause matches every row once one row matches
DeleteMatchingAll(tbl, slug) == IF RowsWith(tbl, slug) = {} THEN tbl ELSE {}

\* DELETE FROM posts WHERE slug = ?
DeleteRows(tbl, slug) == {r \in tbl : r.slug # slug}

\* result.RowsAffected() of the UPDATE and of the DELETE
RowsAffected(tbl, slug) == Cardinality(RowsWith(tbl, slug))

\* Ordered as ORDER BY published_at ASC
OrderedAscending(a, b) == a.published_at <= b.published_at

\* ORDER BY published_at DESC: the row at i is not older than the row at j
Ordered(a, b) == a.published_at >= b.published_at

\* SELECT ... ORDER BY published_at DESC: the orders the query may return
\* (rows of equal published_at come in either order)
ListQuery(tbl) ==
    {q \in [1..Cardinality(tbl) -> tbl] :
        /\ \A i, j \in DOMAIN q : i # j => q[i] # q[j]
        /\ \A i, j \in DOMAIN q : i < j => Ordered(q[i], q[j])}

\* ---------------------------------------------------------- Post and JSON
\* var p Post: the zero value
ZeroPost == [Slug |-> <<>>, Title |-> <<>>, Description |-> "",
             Content |-> "", PublishedAt |-> 0]

\* json.Decode of a well-formed body into a zero Post
Decode(body) == [ZeroPost EXCEPT !.Slug = body.slug, !.Title = body.title,
                                 !.Description = body.description,
                                 !.Content = body.content]

\* rows.Scan of line 66: four columns, Content stays the zero value
ScanSummary(r) == [ZeroPost EXCEPT !.Slug = r.slug, !.Title = r.title,
                                   !.Description = r.description,
                                   !.PublishedAt = r.published_at]

\* row.Scan of line 81: all five columns
ScanFull(r) == [Slug |-> r.slug, Title |-> r.title,
                Description |-> r.description, Content |-> r.content,
                PublishedAt |-> r.published_at]

\* json.Encode of a Post: the struct tags of lines 18-22, none omitempty
EncodePost(p) == [slug |-> p.Slug, title |-> p.Title,
                  description |-> p.Description, content |-> p.Content,
                  published_at |-> p.PublishedAt]

\* ---------------------------------------------------------------- responses
\* A request that has been answered: what was sent (method, path, header,
\* whether the body was well-formed JSON, whether the database failed the
\* statement), the Post p the handler read from or wrote to the table (the
\* zero Post when it did neither), and the response (status, Content-Type,
\* text of an error, JSON objects).
Answer(req, hdr, bodyOk, dbErr, handler, p, status, ctype, text, out) ==
    [method |-> req[1], path |-> req[2], hdr |-> hdr, bodyOk |-> bodyOk,
     dbErr |-> dbErr, handler |-> handler, p |-> p, status |-> status,
     ctype |-> ctype, text |-> text, out |-> out]

\* http.Error: a plain-text body
HttpError(req, hdr, bodyOk, dbErr, handler, p, text, status) ==
    Answer(req, hdr, bodyOk, dbErr, handler, p, status, "text/plain", text, <<>>)

\* jsonResponse with one object
JsonObject(req, hdr, handler, p, obj) ==
    Answer(req, hdr, TRUE, FALSE, handler, p, 200, "application/json", "", <<obj>>)

\* jsonResponse with the posts slice (a nil slice is encoded as null)
JsonList(req, handler, objs) ==
    Answer(req, NoHeader, TRUE, FALSE, handler, ZeroPost, 200, "application/json",
           IF Len(objs) = 0 THEN "null" ELSE "", objs)

NoRequest ==
    Answer(<<"", OtherPath>>, NoHeader, TRUE, FALSE, "", ZeroPost, 0, "", "", <<>>)

\* ------------------------------------------------------------------ handlers
\* GET /api/posts
handleListPosts(req) ==
    /\ Route(req[1], req[2]) = "handleListPosts"
    /\ \/ last' = HttpError(req, NoHeader, TRUE, TRUE, "handleListPosts",
                            ZeroPost, "Database error", 500)
       \/ \E q \in ListQuery(posts) :
              last' = JsonList(req, "handleListPosts",
                        [i \in 1..Len(q) |-> EncodePost(ScanSummary(q[i]))])
    /\ UNCHANGED <<posts, clock, env, pending, nTitle, nSlug, nAgain>>

\* GET /api/posts/{slug}: every Scan error, sql.ErrNoRows or not, is a 404
handleGetPost(req) ==
    /\ Route(req[1], req[2]) = "handleGetPost"
    /\ \E dbErr \in BOOLEAN :
         LET slug == req[2].seg
             hit  == RowsWith(posts, slug)
         IN IF dbErr \/ hit = {}
            THEN last' = HttpError(req, NoHeader, TRUE, dbErr, "handleGetPost",
                                   ZeroPost, "Post not found", 404)
            ELSE \E r \in hit :
                   last' = JsonObject(req, NoHeader, "handleGetPost",
                                      ScanFull(r), EncodePost(ScanFull(r)))
    /\ UNCHANGED <<posts, clock, env, pending, nTitle, nSlug, nAgain>>

\* lines 104-112: the slug of the post being published
ResolveSlug(p) == IF p.Slug = <<>> THEN Normalize(p.Title) ELSE p.Slug

\* POST /api/publish, lines 92-114: up to and including time.Now().
\* Each reading of the clock is later than the one before.
handlePublish(req, hdr, body) ==
    /\ Route(req[1], req[2]) = "handlePublish"
    /\ IF ~Authorized(hdr)
       THEN /\ last' = HttpError(req, hdr, body.ok, FALSE, "handlePublish",
                                 ZeroPost, "Go away", 401)
            /\ UNCHANGED <<pending, clock>>
       ELSE IF ~body.ok
       THEN /\ last' = HttpError(req, hdr, FALSE, FALSE, "handlePublish",
                                 ZeroPost, "Bad JSON", 400)
            /\ UNCHANGED <<pending, clock>>
       ELSE /\ BagCardinality(pending) < MaxInFlight
            /\ clock <= MaxClock
            /\ LET d == Decode(body)
                   p == [d EXCEPT !.Slug = ResolveSlug(d), !.PublishedAt = clock]
               IN pending' = pending (+) SetToBag({[req |-> req, hdr |-> hdr,
                                                    p |-> p]})
            /\ clock' = clock + 1
            /\ UNCHANGED last
    /\ UNCHANGED <<posts, env, nTitle, nSlug, nAgain>>

\* POST /api/publish, lines 116-130: db.Exec and the response
handlePublishExec(e) ==
    /\ BagIn(e, pending)
    /\ pending' = pending (-) SetToBag({e})
    /\ \/ /\ last' = HttpError(e.req, e.hdr, TRUE, TRUE, "handlePublish", ZeroPost,
                               "Failed to save", 500)
          /\ UNCHANGED posts
       \/ /\ posts' = Upsert(posts, e.p)
          /\ last' = JsonObject(e.req, e.hdr, "handlePublish", e.p,
                        [status |-> "published",
                         link |-> <<"/post/">> \o e.p.Slug])
    /\ UNCHANGED <<clock, env, nTitle, nSlug, nAgain>>

\* DELETE /api/posts/{slug}
handleDeletePost(req, hdr) ==
    /\ Route(req[1], req[2]) = "handleDeletePost"
    /\ LET slug == req[2].seg
       IN IF ~Authorized(hdr)
          THEN /\ last' = HttpError(req, hdr, TRUE, FALSE, "handleDeletePost",
                                    ZeroPost, "Go away", 401)
               /\ UNCHANGED posts
          ELSE \/ /\ last' = HttpError(req, hdr, TRUE, TRUE, "handleDeletePost",
                                       ZeroPost, "Database error", 500)
                  /\ UNCHANGED posts
               \/ /\ posts' = DeleteRows(posts, slug)
                  /\ last' = IF RowsAffected(posts, slug) = 0
                             THEN HttpError(req, hdr, TRUE, FALSE,
                                            "handleDeletePost", ZeroPost,
                                            "Post not found", 404)
                             ELSE JsonObject(req, hdr, "handleDeletePost",
                                             ZeroPost,
                                             [status |-> "deleted", slug |-> slug])
    /\ UNCHANGED <<clock, env, pending, nTitle, nSlug, nAgain>>

\* PUT /api/posts/{slug}
handleUpdatePost(req, hdr, body) ==
    /\ Route(req[1], req[2]) = "handleUpdatePost"
    /\ LET slug == req[2].seg
           p    == Decode(body)
       IN IF ~Authorized(hdr)
          THEN /\ last' = HttpError(req, hdr, body.ok, FALSE, "handleUpdatePost",
                                    ZeroPost, "Go away", 401)
               /\ UNCHANGED posts
          ELSE IF ~body.ok
          THEN /\ last' = HttpError(req, hdr, FALSE, FALSE, "handleUpdatePost",
                                    ZeroPost, "Bad JSON", 400)
               /\ UNCHANGED posts
          ELSE \/ /\ last' = HttpError(req, hdr, TRUE, TRUE, "handleUpdatePost",
                                       ZeroPost, "Database error", 500)
                  /\ UNCHANGED posts
               \/ /\ posts' = UpdateRows(posts, slug, p)
                  /\ last' = IF RowsAffected(posts, slug) = 0
                             THEN HttpError(req, hdr, TRUE, FALSE,
                                            "handleUpdatePost", ZeroPost,
                                            "Post not found", 404)
                             ELSE JsonObject(req, hdr, "handleUpdatePost", p,
                                             [status |-> "updated", slug |-> slug])
    /\ UNCHANGED <<clock, env, pending, nTitle, nSlug, nAgain>>

\* the catch-all "/": http.ServeFile of static/index.html
serveIndex(req) ==
    /\ Route(req[1], req[2]) = "static"
    /\ last' = Answer(req, NoHeader, TRUE, FALSE, "static", ZeroPost, 200,
                      "text/html", "static/index.html", <<>>)
    /\ UNCHANGED <<posts, clock, env, pending, nTitle, nSlug, nAgain>>

\* ------------------------------------------------------------ specification
\* after initDB on a fresh malt.db: the table exists and is empty;
\* MALT_SECRET is set to the key
Init ==
    /\ posts = {}
    /\ clock = 1
    /\ env = "k"
    /\ pending = EmptyBag
    /\ last = NoRequest
    /\ nTitle = <<>>
    /\ nSlug = <<>>
    /\ nAgain = <<>>

Next ==
    \/ \E req \in Requests : handleListPosts(req)
    \/ \E req \in Requests : handleGetPost(req)
    \/ \E req \in Requests, hdr \in Headers, body \in Bodies :
          handlePublish(req, hdr, body)
    \/ \E e \in BagToSet(pending) : handlePublishExec(e)
    \/ \E req \in Requests, hdr \in Headers : handleDeletePost(req, hdr)
    \/ \E req \in Requests, hdr \in Headers, body \in Bodies :
          handleUpdatePost(req, hdr, body)
    \/ \E req \in Requests : serveIndex(req)

Spec == Init /\ [][Next]_vars

\* the same server started with any value of MALT_SECRET, unset included
InitAnySecret ==
    /\ posts = {}
    /\ clock = 1
    /\ env \in Secrets
    /\ pending = EmptyBag
    /\ last = NoRequest
    /\ nTitle = <<>>
    /\ nSlug = <<>>
    /\ nAgain = <<>>

SpecAnySecret == InitAnySecret /\ [][Next]_vars

\* ------------------------------------------- the slug normalizer on its own
\* all strings over Alphabet of length at most n
RECURSIVE StringsUpTo(_)
StringsUpTo(n) ==
    IF n = 0 THEN {<<>>}
    ELSE LET shorter == StringsUpTo(n - 1)
         IN shorter \cup {Append(s, c) : s \in shorter, c \in Alphabet}

InitNorm ==
    /\ posts = {}
    /\ clock = 1
    /\ env = ""
    /\ pending = EmptyBag
    /\ last = NoRequest
    /\ nTitle \in StringsUpTo(MaxTitleLen)
    /\ nSlug = <<>>
    /\ nAgain = <<>>

\* publish of a post with no slug: the slug is Normalize(title)
NormalizeTitle ==
    /\ nSlug = <<>>
    /\ nSlug' = <<Normalize(nTitle)>>
    /\ UNCHANGED <<posts, clock, env, pending, last, nTitle, nAgain>>

\* the resulting slug used as a title of a later publish with no slug
NormalizeSlug ==
    /\ nSlug # <<>>
    /\ nAgain = <<>>
    /\ nAgain' = <<Normalize(nSlug[1])>>
    /\ UNCHANGED <<posts, clock, env, pending, last, nTitle, nSlug>>

NextNorm == NormalizeTitle \/ NormalizeSlug

SpecNorm == InitNorm /\ [][NextNorm]_vars

\* ===================================================================
\* Properties
\* ===================================================================
\* the step answers a request
Answered == last' # last

Mutating == {"handlePublish", "handleUpdatePost", "handleDeletePost"}

\* the slugs in the order a listing of tbl returns them
SlugOrders(tbl) == {[i \in DOMAIN q |-> q[i].slug] : q \in ListQuery(tbl)}

\* row r carries the three text fields of Post p
Carries(r, p) ==
    r.title = p.Title /\ r.description = p.Description /\ r.content = p.Content

\* C1: a publish that is saved while a row with its resolved slug exists sets
\* that row's title, description and content to the request's, leaves the
\* row's slug and published_at as they were, leaves one row for the slug,
\* and leaves every other row alone.  (A publish the database fails is
\* answered 500 and changes no row.)
C1_RepublishOverwritesInPlace ==
    /\ [][(Answered /\ last'.handler = "handlePublish" /\ last'.status = 200
             /\ RowsWith(posts, last'.p.Slug) # {})
          => /\ Cardinality(RowsWith(posts', last'.p.Slug)) = 1
             /\ \A old \in RowsWith(posts, last'.p.Slug) :
                \A new \in RowsWith(posts', last'.p.Slug) :
                   /\ new.slug = old.slug
                   /\ new.published_at = old.published_at
                   /\ Carries(new, last'.p)
             /\ \A r \in posts : r.slug # last'.p.Slug => r \in posts'
             /\ Cardinality(posts') = Cardinality(posts)]_vars
    /\ [][(Answered /\ last'.handler = "handlePublish" /\ last'.status # 200)
          => posts' = posts]_vars

\* a second publish of a slug has been saved: the row has the text of the
\* second request and the timestamp of the first
C1_Witness ==
    /\ last.handler = "handlePublish" /\ last.status = 200
    /\ \E r \in RowsWith(posts, last.p.Slug) :
          /\ r.published_at < last.p.PublishedAt
          /\ Carries(r, last.p)

\* C2: a publish, update or delete whose X-MALT-KEY header is missing or is
\* not the key is answered 401 and leaves the posts table unchanged.
C2_BadKeyIs401 ==
    [][(Answered /\ last'.handler \in Mutating
          /\ (~last'.hdr.present \/ last'.hdr.value # env))
       => (last'.status = 401 /\ posts' = posts)]_vars

\* C3: an authorized DELETE answers 404 and changes nothing when no row has
\* the slug; otherwise it answers 200 and removes that row and no other
\* (a DELETE statement the database fails is answered 500 and changes
\* nothing).  A GET of a slug no row has answers 404, and a slug gets a row
\* only by a publish of that slug.
C3_Delete ==
    /\ [][(Answered /\ last'.handler = "handleDeletePost"
             /\ Authorized(last'.hdr))
          => IF last'.dbErr
             THEN last'.status = 500 /\ posts' = posts
             ELSE IF RowsWith(posts, last'.path.seg) = {}
             THEN last'.status = 404 /\ posts' = posts
             ELSE /\ last'.status = 200
                  /\ Cardinality(posts') = Cardinality(posts) - 1
                  /\ posts' = {r \in posts : r.slug # last'.path.seg}]_vars
    /\ [][(Answered /\ last'.handler = "handleGetPost"
             /\ RowsWith(posts, last'.path.seg) = {})
          => last'.status = 404]_vars
    /\ [][\A r \in posts' :
             RowsWith(posts, r.slug) = {}
             => /\ last'.handler = "handlePublish" /\ last'.status = 200
                /\ last'.p.Slug = r.slug]_vars

\* a DELETE removed a row and another row is still there
C3_Witness ==
    /\ last.handler = "handleDeletePost" /\ last.status = 200
    /\ RowsWith(posts, last.path.seg) = {}
    /\ posts # {}

\* C4: the list holds every stored post once, newest published_at first,
\* and an update or a publish of a slug that has a row leaves that order as
\* it was.
C4_ListNewestFirst ==
    /\ []((last.handler = "handleListPosts" /\ last.status = 200)
          => /\ Len(last.out) = Cardinality(posts)
             /\ {last.out[i].slug : i \in DOMAIN last.out}
                  = {r.slug : r \in posts}
             /\ \A i, j \in DOMAIN last.out :
                   i < j => last.out[i].published_at > last.out[j].published_at
             /\ \A i \in DOMAIN last.out : \E r \in posts :
                   /\ r.slug = last.out[i].slug
                   /\ r.published_at = last.out[i].published_at)
    /\ [][(Answered /\ last'.status = 200
             /\ \/ last'.handler = "handleUpdatePost"
                \/ /\ last'.handler = "handlePublish"
                   /\ RowsWith(posts, last'.p.Slug) # {})
          => SlugOrders(posts') = SlugOrders(posts)]_vars

\* three posts are listed newest first, and the oldest is one whose title
\* was changed by a PUT after all three were published (its slug comes from
\* the title "A b", its title is another)
C4_Witness ==
    /\ last.handler = "handleListPosts" /\ last.status = 200
    /\ Len(last.out) = 3
    /\ last.out[1].published_at > last.out[2].published_at
    /\ last.out[2].published_at > last.out[3].published_at
    /\ last.out[3].slug = Normalize(Titles[1])
    /\ last.out[3].title # Titles[1]

\* C5: normalizing a normalized slug returns it unchanged.
C5_NormalizeIdempotent ==
    nAgain # <<>> => nAgain[1] = nSlug[1]

\* C6: an authorized PUT with a well-formed body never adds or removes a
\* row.  It answers 404 and changes nothing when no row has the path slug;
\* otherwise it answers 200, sets that row's title, description and content
\* to the body's, and leaves its slug, its published_at and every other row
\* (a row with the body's slug too) unchanged.  (An UPDATE statement the
\* database fails is answered 500 and changes nothing.)
C6_UpdateInPlace ==
    [][(Answered /\ last'.handler = "handleUpdatePost"
          /\ Authorized(last'.hdr) /\ last'.bodyOk)
       => /\ {r.slug : r \in posts'} = {r.slug : r \in posts}
          /\ Cardinality(posts') = Cardinality(posts)
          /\ IF last'.dbErr
             THEN last'.status = 500 /\ posts' = posts
             ELSE IF RowsWith(posts, last'.path.seg) = {}
             THEN last'.status = 404 /\ posts' = posts
             ELSE /\ last'.status = 200
                  /\ \A r \in posts :
                       IF r.slug = last'.path.seg
                       THEN \E new \in posts' :
                              /\ new.slug = r.slug
                              /\ new.published_at = r.published_at
                              /\ Carries(new, last'.p)
                       ELSE r \in posts']_vars

\* a PUT changed a row while its body named the slug of another stored row,
\* whose text is not the body's
C6_Witness ==
    /\ last.handler = "handleUpdatePost" /\ last.status = 200
    /\ last.p.Slug # last.path.seg
    /\ \E r \in RowsWith(posts, last.p.Slug) : ~Carries(r, last.p)
    /\ \E r \in RowsWith(posts, last.path.seg) : Carries(r, last.p)

\* C7: no object of the list response has a content field; the object of a
\* 200 response to GET /api/posts/{slug} has one, holding the stored content.
C7_ContentField ==
    /\ (last.handler = "handleListPosts" /\ last.status = 200)
       => \A i \in DOMAIN last.out : "content" \notin DOMAIN last.out[i]
    /\ (last.handler = "handleGetPost" /\ last.status = 200)
       => /\ "content" \in DOMAIN last.out[1]
          /\ \E r \in RowsWith(posts, last.path.seg) :
                last.out[1].content = r.content

\* C8: GET /api/posts/{slug} answers 404 only when no row has the slug, and
\* answers a failed query with a status other than 404.
C8_GetErrorsDistinct ==
    last.handler = "handleGetPost"
    => /\ last.status = 404 => RowsWith(posts, last.path.seg) = {}
       /\ last.dbErr => last.status # 404

\* C9: while a post is stored, a GET of /api/posts/<its slug> that the
\* database executes is answered 200 with the post and its content, and a
\* list that the database executes contains it.
C9_StoredPostVisible ==
    /\ (last.method = "GET" /\ last.path.kind = "post" /\ ~last.dbErr
          /\ RowsWith(posts, last.path.seg) # {})
       => /\ last.status = 200
          /\ Len(last.out) = 1
          /\ \E r \in RowsWith(posts, last.path.seg) :
                last.out[1] = EncodePost(ScanFull(r))
    /\ (last.handler = "handleListPosts" /\ last.status = 200)
       => \A r \in posts : \E i \in DOMAIN last.out : last.out[i].slug = r.slug

\* C10: in every interleaving there is at most one row per slug, the row's
\* title, description and content are those of one request, a row that
\* appears carries the timestamp of the publish that inserted it, and no
\* later statement changes a row's published_at.
C10_RowsAtomic ==
    /\ [](/\ \A r1, r2 \in posts : r1.slug = r2.slug => r1 = r2
          /\ \A r \in posts : \E b \in JsonBodies : Carries(r, Decode(b)))
    /\ [][\A r \in posts' :
             IF RowsWith(posts, r.slug) = {}
             THEN \E e \in BagToSet(pending) :
                    /\ pending' = pending (-) SetToBag({e})
                    /\ r = NewRow(e.p)
             ELSE \A old \in RowsWith(posts, r.slug) :
                    r.published_at = old.published_at]_vars

\* two publishes of one slug raced: the one that read the clock first was
\* saved second, onto the row the other inserted, while a third request is
\* still in flight
C10_Witness ==
    /\ last.handler = "handlePublish" /\ last.status = 200
    /\ \E r \in RowsWith(posts, last.p.Slug) :
          /\ r.published_at > last.p.PublishedAt
          /\ Carries(r, last.p)
    /\ pending # EmptyBag

====
